---- MODULE Spec2Model ----
(***************************************************************************)
(* SpaceFlow: room bookings (availability check, booking lifecycle,       *)
(* manager approval), bulk confirmation and the room suggestion pipeline. *)
(* Routes are translated from backend/app/api/routes; the booking storage *)
(* functions (app.crud.booking, app.crud.room), which the routes import   *)
(* but which are not part of the sources at hand, follow the written      *)
(* specification of the Booking Lifecycle Manager and Conflict Checker.   *)
(***************************************************************************)
EXTENDS Integers, Sequences, FiniteSets, TLC

VARIABLES
    bookings,   \* the bookings table: a set of rows
    nextId,     \* the next autoincrement booking id
    last,       \* the response of the request handled last
    bulk,       \* the confirm-bulk request in progress
    workers,    \* requests handled concurrently, each at one of its awaits
    rooms,      \* the rooms table: capacity, amenities, availability flag
    sugg,       \* the suggest request in progress
    blacklisted_tokens,   \* auth.py: the set of revoked refresh tokens
    refreshers  \* refresh requests handled concurrently, each at its await

storeVars == <<bookings, nextId>>
authVars == <<blacklisted_tokens, refreshers>>
vars == <<bookings, nextId, last, bulk, workers, rooms, sugg, blacklisted_tokens,
          refreshers>>

----------------------------------------------------------------------------
(* Bounds of the model *)

MaxTime == 3          \* times of day are 1..MaxTime
MaxBookings == 2      \* rows ever inserted in the lifecycle specification

Times == 1..MaxTime

(* Optional values: None is the empty set, a present value v is {v}. *)
None == {}
Some(v) == {v}
Get(o) == CHOOSE v \in o : TRUE

(* Users: 1 is an ordinary user, 2 is a manager (User.is_manager); Staff
   adds a second manager, 3. *)
Users == {1, 2}
Staff == {1, 2, 3}
is_manager(u) == u >= 2

(* Rooms table: ids 1 and 2 exist, id 3 is requested but does not exist. *)
RoomIds == {1, 2}
RequestRoomIds == {1, 2, 3}
Dates == {1, 2}

----------------------------------------------------------------------------
(* app.crud.room / app.crud.booking: storage functions *)

get_room(room_id) == IF room_id \in RoomIds THEN Some(room_id) ELSE None

get_booking(bs, booking_id) == {b \in bs : b.id = booking_id}

(* Half-open overlap of [s1, e1) and [s2, e2). *)
Overlaps(s1, e1, s2, e2) == s1 < e2 /\ s2 < e1

(* Conflict Checker: free iff no non-cancelled booking of that room and
   date overlaps the interval. *)
check_room_availability(bs, room_id, booking_date, start_time, end_time) ==
    ~ \E b \in bs :
        /\ b.room_id = room_id
        /\ b.booking_date = booking_date
        /\ b.status # "cancelled"
        /\ Overlaps(start_time, end_time, b.start_time, b.end_time)

(* A row that keeps the requested participant ids as they came. *)
NewBooking_keeping_organizer(id, bk, user_id) ==
    [id |-> id,
     room_id |-> bk.room_id,
     user_id |-> user_id,
     booking_date |-> bk.booking_date,
     start_time |-> bk.start_time,
     end_time |-> bk.end_time,
     status |-> "upcoming",
     approval_status |-> "pending",
     approved_by_id |-> None,
     approved_at |-> None,
     rejection_reason |-> None,
     participants |-> bk.participant_ids]

(* The row a create persists: upcoming, approval pending, participants
   without the organizer. *)
NewBooking(id, bk, user_id) ==
    [id |-> id,
     room_id |-> bk.room_id,
     user_id |-> user_id,
     booking_date |-> bk.booking_date,
     start_time |-> bk.start_time,
     end_time |-> bk.end_time,
     status |-> "upcoming",
     approval_status |-> "pending",
     approved_by_id |-> None,
     approved_at |-> None,
     rejection_reason |-> None,
     participants |-> bk.participant_ids \ {user_id}]

(* create_booking that inserts without running the conflict check. *)
create_booking_unchecked(bs, id, bk, user_id, fault) ==
    IF fault
    THEN [raised |-> TRUE, booking |-> None, bookings |-> bs]
    ELSE LET row == NewBooking(id, bk, user_id)
         IN [raised |-> FALSE, booking |-> Some(row), bookings |-> bs \cup {row}]

(* crud.create_booking as one transaction: the conflict check, then the
   insert.  fault is a failure raised by the storage layer during the
   create; nothing is persisted then. *)
create_booking(bs, id, bk, user_id, fault) ==
    IF fault
    THEN [raised |-> TRUE, booking |-> None, bookings |-> bs]
    ELSE IF ~ check_room_availability(bs, bk.room_id, bk.booking_date,
                                      bk.start_time, bk.end_time)
    THEN [raised |-> FALSE, booking |-> None, bookings |-> bs]
    ELSE LET row == NewBooking(id, bk, user_id)
         IN [raised |-> FALSE, booking |-> Some(row), bookings |-> bs \cup {row}]

(* An update that checks the new slot against every stored booking, the
   updated one included. *)
update_booking_against_all(bs, booking_id, upd, user_id) ==
    LET found == get_booking(bs, booking_id) IN
    IF found = {} THEN [booking |-> None, bookings |-> bs]
    ELSE LET b == Get(found) IN
    IF b.user_id # user_id THEN [booking |-> None, bookings |-> bs]
    ELSE LET d == IF upd.booking_date = None THEN b.booking_date ELSE Get(upd.booking_date)
             s == IF upd.start_time = None THEN b.start_time ELSE Get(upd.start_time)
             e == IF upd.end_time = None THEN b.end_time ELSE Get(upd.end_time)
             row == [b EXCEPT !.booking_date = d, !.start_time = s, !.end_time = e]
         IN IF ~ check_room_availability(bs, b.room_id, d, s, e)
            THEN [booking |-> None, bookings |-> bs]
            ELSE [booking |-> Some(row), bookings |-> (bs \ {b}) \cup {row}]

(* crud.update_booking: organizer only; the supplied fields replace the
   stored ones; the new slot is checked against the other bookings. *)
update_booking(bs, booking_id, upd, user_id) ==
    LET found == get_booking(bs, booking_id) IN
    IF found = {} THEN [booking |-> None, bookings |-> bs]
    ELSE LET b == Get(found) IN
    IF b.user_id # user_id THEN [booking |-> None, bookings |-> bs]
    ELSE LET d == IF upd.booking_date = None THEN b.booking_date ELSE Get(upd.booking_date)
             s == IF upd.start_time = None THEN b.start_time ELSE Get(upd.start_time)
             e == IF upd.end_time = None THEN b.end_time ELSE Get(upd.end_time)
             row == [b EXCEPT !.booking_date = d, !.start_time = s, !.end_time = e]
         IN IF ~ check_room_availability(bs \ {b}, b.room_id, d, s, e)
            THEN [booking |-> None, bookings |-> bs]
            ELSE [booking |-> Some(row), bookings |-> (bs \ {b}) \cup {row}]

(* crud.cancel_booking: organizer only; the row stays, status cancelled. *)
cancel_booking(bs, booking_id, user_id) ==
    LET found == get_booking(bs, booking_id) IN
    IF found = {} THEN [ok |-> FALSE, bookings |-> bs]
    ELSE LET b == Get(found) IN
    IF b.user_id # user_id THEN [ok |-> FALSE, bookings |-> bs]
    ELSE [ok |-> TRUE, bookings |-> (bs \ {b}) \cup {[b EXCEPT !.status = "cancelled"]}]

(* crud.delete_booking: organizer only; the row is removed. *)
delete_booking(bs, booking_id, user_id) ==
    LET found == get_booking(bs, booking_id) IN
    IF found = {} THEN [ok |-> FALSE, bookings |-> bs]
    ELSE LET b == Get(found) IN
    IF b.user_id # user_id THEN [ok |-> FALSE, bookings |-> bs]
    ELSE [ok |-> TRUE, bookings |-> bs \ {b}]

(* crud.approve_booking / crud.reject_booking: only a booking whose
   approval is pending; stamps the approver and the time. *)
approve_booking(bs, booking_id, manager_id) ==
    LET found == get_booking(bs, booking_id) IN
    IF found = {} THEN [booking |-> None, bookings |-> bs]
    ELSE LET b == Get(found) IN
    IF b.approval_status # "pending" THEN [booking |-> None, bookings |-> bs]
    ELSE LET row == [b EXCEPT !.approval_status = "approved",
                              !.approved_by_id = Some(manager_id),
                              !.approved_at = Some("now")]
         IN [booking |-> Some(row), bookings |-> (bs \ {b}) \cup {row}]

reject_booking(bs, booking_id, manager_id, reason) ==
    LET found == get_booking(bs, booking_id) IN
    IF found = {} THEN [booking |-> None, bookings |-> bs]
    ELSE LET b == Get(found) IN
    IF b.approval_status # "pending" THEN [booking |-> None, bookings |-> bs]
    ELSE LET row == [b EXCEPT !.approval_status = "rejected",
                              !.approved_by_id = Some(manager_id),
                              !.approved_at = Some("now"),
                              !.rejection_reason = reason]
         IN [booking |-> Some(row), bookings |-> (bs \ {b}) \cup {row}]

----------------------------------------------------------------------------
(* Responses *)

Response(op, outcome, id, storage) ==
    [op |-> op, outcome |-> outcome, id |-> id, storage |-> storage]

(* The response of POST /bookings/ together with the slot it was asked for. *)
CreateResponse(outcome, id, storage, bk) ==
    [op |-> "create", outcome |-> outcome, id |-> id, storage |-> storage,
     room_id |-> bk.room_id, booking_date |-> bk.booking_date,
     start_time |-> bk.start_time, end_time |-> bk.end_time]

BookingCreate(room_id, booking_date, start_time, end_time, participant_ids) ==
    [room_id |-> room_id, booking_date |-> booking_date,
     start_time |-> start_time, end_time |-> end_time,
     participant_ids |-> participant_ids]

----------------------------------------------------------------------------
(* routes/bookings.py: one action per endpoint, the whole handler *)

(* POST /bookings/ that validates with end_time < start_time, so that an
   empty interval passes. *)
CreateBooking_lt(user, room_id, booking_date, start_time, end_time, participant_ids, fault) ==
    LET bk == BookingCreate(room_id, booking_date, start_time, end_time, participant_ids)
    IN
    /\ UNCHANGED <<bulk, workers, rooms, authVars, sugg>>
    /\ IF end_time < start_time
       THEN /\ last' = CreateResponse("400_BAD_REQUEST", 0, FALSE, bk)
            /\ UNCHANGED storeVars
       ELSE IF get_room(room_id) = None
       THEN /\ last' = CreateResponse("404_NOT_FOUND", 0, TRUE, bk)
            /\ UNCHANGED storeVars
       ELSE LET res == create_booking(bookings, nextId, bk, user, fault)
            IN IF res.raised
               THEN /\ last' = CreateResponse("500_ERROR", 0, TRUE, bk)
                    /\ UNCHANGED storeVars
               ELSE IF res.booking = None
               THEN /\ last' = CreateResponse("409_CONFLICT", 0, TRUE, bk)
                    /\ UNCHANGED storeVars
               ELSE /\ last' = CreateResponse("201_CREATED", nextId, TRUE, bk)
                    /\ bookings' = res.bookings
                    /\ nextId' = nextId + 1

(* POST /bookings/ *)
CreateBooking(user, room_id, booking_date, start_time, end_time, participant_ids, fault) ==
    LET bk == BookingCreate(room_id, booking_date, start_time, end_time, participant_ids)
    IN
    /\ UNCHANGED <<bulk, workers, rooms, authVars, sugg>>
    /\ IF end_time <= start_time
       THEN /\ last' = CreateResponse("400_BAD_REQUEST", 0, FALSE, bk)
            /\ UNCHANGED storeVars
       ELSE IF get_room(room_id) = None
       THEN /\ last' = CreateResponse("404_NOT_FOUND", 0, TRUE, bk)
            /\ UNCHANGED storeVars
       ELSE LET res == create_booking(bookings, nextId, bk, user, fault)
            IN IF res.raised
               THEN /\ last' = CreateResponse("500_ERROR", 0, TRUE, bk)
                    /\ UNCHANGED storeVars
               ELSE IF res.booking = None
               THEN /\ last' = CreateResponse("409_CONFLICT", 0, TRUE, bk)
                    /\ UNCHANGED storeVars
               ELSE /\ last' = CreateResponse("201_CREATED", nextId, TRUE, bk)
                    /\ bookings' = res.bookings
                    /\ nextId' = nextId + 1

(* The availability endpoint passing the interval's ends the wrong way
   round. *)
CheckAvailability_swapped(room_id, booking_date, start_time, end_time) ==
    /\ last' = [op |-> "check", outcome |-> "200_OK", id |-> 0, storage |-> TRUE,
                available |-> check_room_availability(bookings, room_id, booking_date,
                                                      end_time, start_time)]
    /\ UNCHANGED <<storeVars, bulk, workers, rooms, authVars, sugg>>

(* POST /bookings/check-availability *)
CheckAvailability(room_id, booking_date, start_time, end_time) ==
    /\ last' = [op |-> "check", outcome |-> "200_OK", id |-> 0, storage |-> TRUE,
                available |-> check_room_availability(bookings, room_id, booking_date,
                                                      start_time, end_time)]
    /\ UNCHANGED <<storeVars, bulk, workers, rooms, authVars, sugg>>

(* PUT /bookings/{booking_id} *)
UpdateBooking(user, booking_id, upd) ==
    /\ UNCHANGED <<nextId, bulk, workers, rooms, authVars, sugg>>
    /\ IF /\ upd.start_time # None
          /\ upd.end_time # None
          /\ Get(upd.end_time) <= Get(upd.start_time)
       THEN /\ last' = Response("update", "400_BAD_REQUEST", booking_id, FALSE)
            /\ UNCHANGED bookings
       ELSE LET res == update_booking(bookings, booking_id, upd, user)
            IN IF res.booking = None
               THEN /\ last' = Response("update", "404_NOT_FOUND", booking_id, TRUE)
                    /\ UNCHANGED bookings
               ELSE /\ last' = Response("update", "200_OK", booking_id, TRUE)
                    /\ bookings' = res.bookings

(* The cancel endpoint answering 200 whatever the storage call returned. *)
CancelBooking_always_ok(user, booking_id) ==
    /\ UNCHANGED <<nextId, bulk, workers, rooms, authVars, sugg>>
    /\ LET res == cancel_booking(bookings, booking_id, user)
       IN /\ last' = Response("cancel", "200_OK", booking_id, TRUE)
          /\ bookings' = res.bookings

(* POST /bookings/{booking_id}/cancel *)
CancelBooking(user, booking_id) ==
    /\ UNCHANGED <<nextId, bulk, workers, rooms, authVars, sugg>>
    /\ LET res == cancel_booking(bookings, booking_id, user)
       IN IF ~ res.ok
          THEN /\ last' = Response("cancel", "404_NOT_FOUND", booking_id, TRUE)
               /\ UNCHANGED bookings
          ELSE /\ last' = Response("cancel", "200_OK", booking_id, TRUE)
               /\ bookings' = res.bookings

(* DELETE /bookings/{booking_id} *)
DeleteBooking(user, booking_id) ==
    /\ UNCHANGED <<nextId, bulk, workers, rooms, authVars, sugg>>
    /\ LET res == delete_booking(bookings, booking_id, user)
       IN IF ~ res.ok
          THEN /\ last' = Response("delete", "404_NOT_FOUND", booking_id, TRUE)
               /\ UNCHANGED bookings
          ELSE /\ last' = Response("delete", "204_NO_CONTENT", booking_id, TRUE)
               /\ bookings' = res.bookings

(* The approve endpoint without its "if not booking" answer. *)
ApproveBooking_always_ok(user, booking_id) ==
    /\ UNCHANGED <<nextId, bulk, workers, rooms, authVars, sugg>>
    /\ IF ~ is_manager(user)
       THEN /\ last' = Response("approve", "403_FORBIDDEN", booking_id, FALSE)
            /\ UNCHANGED bookings
       ELSE LET res == approve_booking(bookings, booking_id, user)
            IN /\ last' = Response("approve", "200_OK", booking_id, TRUE)
               /\ bookings' = res.bookings

(* POST /bookings/{booking_id}/approve *)
ApproveBooking(user, booking_id) ==
    /\ UNCHANGED <<nextId, bulk, workers, rooms, authVars, sugg>>
    /\ IF ~ is_manager(user)
       THEN /\ last' = Response("approve", "403_FORBIDDEN", booking_id, FALSE)
            /\ UNCHANGED bookings
       ELSE LET res == approve_booking(bookings, booking_id, user)
            IN IF res.booking = None
               THEN /\ last' = Response("approve", "404_NOT_FOUND", booking_id, TRUE)
                    /\ UNCHANGED bookings
               ELSE /\ last' = Response("approve", "200_OK", booking_id, TRUE)
                    /\ bookings' = res.bookings

(* The reject endpoint without its manager test. *)
RejectBooking_by_anyone(user, booking_id, reason) ==
    /\ UNCHANGED <<nextId, bulk, workers, rooms, authVars, sugg>>
    /\ LET res == reject_booking(bookings, booking_id, user, reason)
       IN IF res.booking = None
          THEN /\ last' = Response("reject", "404_NOT_FOUND", booking_id, TRUE)
               /\ UNCHANGED bookings
          ELSE /\ last' = Response("reject", "200_OK", booking_id, TRUE)
               /\ bookings' = res.bookings

(* POST /bookings/{booking_id}/reject *)
RejectBooking(user, booking_id, reason) ==
    /\ UNCHANGED <<nextId, bulk, workers, rooms, authVars, sugg>>
    /\ IF ~ is_manager(user)
       THEN /\ last' = Response("reject", "403_FORBIDDEN", booking_id, FALSE)
            /\ UNCHANGED bookings
       ELSE LET res == reject_booking(bookings, booking_id, user, reason)
            IN IF res.booking = None
               THEN /\ last' = Response("reject", "404_NOT_FOUND", booking_id, TRUE)
                    /\ UNCHANGED bookings
               ELSE /\ last' = Response("reject", "200_OK", booking_id, TRUE)
                    /\ bookings' = res.bookings

----------------------------------------------------------------------------
(* routes/event_suggestions.py: POST /event-suggestions/confirm-bulk.
   The handler loops over confirmation.bookings; it is suspended at every
   storage call, so one action handles one item of the loop. *)

BulkIdle == [pc |-> "idle"]

(* The request arrives: created_ids = [], failed_bookings = []. *)
BulkStart(user, booking_date, n) ==
    /\ bulk.pc = "idle"
    /\ bulk' = [pc |-> "loop", user |-> user, booking_date |-> booking_date,
                n |-> n, log |-> <<>>,
                created_ids |-> <<>>, failed_bookings |-> <<>>]
    /\ UNCHANGED <<storeVars, last, workers, rooms, authVars, sugg>>

Failure(activity_name, error) == [activity |-> activity_name, error |-> error]

LogEntry(activity_name, valid, row) ==
    [activity |-> activity_name, valid |-> valid, row |-> row]

(* A failure that leaves no entry in failed_bookings. *)
ItemFailed_dropped(entry, error) ==
    /\ bulk' = [bulk EXCEPT !.log = Append(@, entry)]
    /\ UNCHANGED storeVars

(* A failure whose item is reported as created all the same. *)
ItemFailed_counted(entry, error) ==
    /\ bulk' = [bulk EXCEPT
           !.log = Append(@, entry),
           !.created_ids = Append(@, nextId),
           !.failed_bookings = Append(@, Failure(entry.activity, error))]
    /\ UNCHANGED storeVars

(* failed_bookings.append({"activity": ..., "error": ...}), then the next
   item; nothing was written for this one. *)
ItemFailed(entry, error) ==
    /\ bulk' = [bulk EXCEPT
           !.log = Append(@, entry),
           !.failed_bookings = Append(@, Failure(entry.activity, error))]
    /\ UNCHANGED storeVars

(* One pass of the loop body for the next item of the batch.  log keeps,
   per item handled, its label, whether the item was valid when handled
   (room exists, slot free, nothing raised) and the id of the row stored
   for it, if any.  fault stands for an exception raised inside the body
   while the booking is created. *)
BulkItem(room_id, activity_name, start_time, end_time, participant_ids, fault) ==
    /\ bulk.pc = "loop"
    /\ Len(bulk.log) < bulk.n
    /\ UNCHANGED <<last, workers, rooms, authVars, sugg>>
    /\ LET valid == /\ room_id \in RoomIds
                    /\ check_room_availability(bookings, room_id, bulk.booking_date,
                                               start_time, end_time)
                    /\ ~ fault
           failed == LogEntry(activity_name, valid, None)
       IN IF get_room(room_id) = None
          THEN ItemFailed(failed, "room not found")
          ELSE IF ~ check_room_availability(bookings, room_id, bulk.booking_date,
                                            start_time, end_time)
          THEN ItemFailed(failed, "no longer available")
          ELSE LET bk == BookingCreate(room_id, bulk.booking_date, start_time,
                                       end_time, participant_ids)
                   res == create_booking(bookings, nextId, bk, bulk.user, fault)
               IN IF res.raised \/ res.booking = None
                  THEN ItemFailed(failed, "exception")
                  ELSE /\ bookings' = res.bookings
                       /\ nextId' = nextId + 1
                       /\ bulk' = [bulk EXCEPT
                              !.log = Append(@, LogEntry(activity_name, valid,
                                                         Some(Get(res.booking).id))),
                              !.created_ids = Append(@, Get(res.booking).id)]

(* A response that counts every item of the batch as created. *)
BulkReturn_counting_items ==
    /\ bulk.pc = "loop"
    /\ Len(bulk.log) = bulk.n
    /\ last' = [op |-> "confirm_bulk", outcome |-> "200_OK", id |-> 0, storage |-> TRUE,
                n |-> bulk.n, log |-> bulk.log,
                created_bookings |-> bulk.created_ids,
                failed_bookings |-> bulk.failed_bookings,
                success_count |-> bulk.n,
                failure_count |-> Len(bulk.failed_bookings)]
    /\ bulk' = BulkIdle
    /\ UNCHANGED <<storeVars, workers, rooms, authVars, sugg>>

(* After the loop: db.commit() and the BulkBookingResponse. *)
BulkReturn ==
    /\ bulk.pc = "loop"
    /\ Len(bulk.log) = bulk.n
    /\ last' = [op |-> "confirm_bulk", outcome |-> "200_OK", id |-> 0, storage |-> TRUE,
                n |-> bulk.n, log |-> bulk.log,
                created_bookings |-> bulk.created_ids,
                failed_bookings |-> bulk.failed_bookings,
                success_count |-> Len(bulk.created_ids),
                failure_count |-> Len(bulk.failed_bookings)]
    /\ bulk' = BulkIdle
    /\ UNCHANGED <<storeVars, workers, rooms, authVars, sugg>>

----------------------------------------------------------------------------
(* The booking lifecycle: requests are handled one after another. *)

----------------------------------------------------------------------------
(* Requests in flight.  Each request is handled by a worker of its own,
   suspended at every await on storage; the steps of two workers
   interleave.  A worker handles a create request or one item of a bulk
   confirmation. *)

Workers == {1, 2}

WorkersIdle == [w \in Workers |-> [pc |-> "idle"]]

Finished(w, outcome, id) ==
    workers' = [workers EXCEPT ![w] = [@ EXCEPT !.pc = "done",
                                                 !.outcome = outcome,
                                                 !.id = id]]

Goto(w, pc) == workers' = [workers EXCEPT ![w] = [@ EXCEPT !.pc = pc]]

(* The request arrives; create_booking validates the interval first,
   confirm_bulk_bookings does not. *)
Receive(w, kind, room_id, booking_date, start_time, end_time) ==
    /\ workers[w].pc = "idle"
    /\ workers' = [workers EXCEPT ![w] =
          [pc |-> IF kind = "create" /\ end_time <= start_time
                     THEN "done" ELSE "get_room",
           kind |-> kind, room_id |-> room_id, booking_date |-> booking_date,
           start_time |-> start_time, end_time |-> end_time,
           outcome |-> IF kind = "create" /\ end_time <= start_time
                          THEN "400_BAD_REQUEST" ELSE "",
           id |-> None]]
    /\ UNCHANGED <<storeVars, last, bulk, rooms, authVars, sugg>>

(* await crud_room.get_room *)
AwaitGetRoom(w) ==
    /\ workers[w].pc = "get_room"
    /\ IF get_room(workers[w].room_id) = None
       THEN Finished(w, IF workers[w].kind = "create" THEN "404_NOT_FOUND"
                        ELSE "failed", None)
       ELSE Goto(w, IF workers[w].kind = "create" THEN "crud_check"
                    ELSE "route_check")
    /\ UNCHANGED <<storeVars, last, bulk, rooms, authVars, sugg>>

(* await crud_booking.check_room_availability in confirm_bulk_bookings *)
AwaitRouteCheck(w) ==
    /\ workers[w].pc = "route_check"
    /\ LET r == workers[w]
       IN IF check_room_availability(bookings, r.room_id, r.booking_date,
                                     r.start_time, r.end_time)
          THEN Goto(w, "crud_check")
          ELSE Finished(w, "failed", None)
    /\ UNCHANGED <<storeVars, last, bulk, rooms, authVars, sugg>>

(* crud create_booking, first await: the Conflict Checker's read *)
AwaitCrudCheck(w) ==
    /\ workers[w].pc = "crud_check"
    /\ LET r == workers[w]
       IN IF check_room_availability(bookings, r.room_id, r.booking_date,
                                     r.start_time, r.end_time)
          THEN Goto(w, "insert")
          ELSE Finished(w, IF r.kind = "create" THEN "409_CONFLICT"
                           ELSE "failed", None)
    /\ UNCHANGED <<storeVars, last, bulk, rooms, authVars, sugg>>

(* crud create_booking, second await: the row is written.  No constraint
   of the table and no lock stands between the read and the write. *)
AwaitInsert(w) ==
    /\ workers[w].pc = "insert"
    /\ LET r == workers[w]
           bk == BookingCreate(r.room_id, r.booking_date, r.start_time,
                               r.end_time, {})
       IN /\ bookings' = bookings \cup {NewBooking(nextId, bk, w)}
          /\ nextId' = nextId + 1
          /\ Finished(w, IF r.kind = "create" THEN "201_CREATED" ELSE "created",
                      Some(nextId))
    /\ UNCHANGED <<last, bulk, rooms, authVars, sugg>>

----------------------------------------------------------------------------
(* crud/event_suggestion.py: EventSuggestionService.  A list of rooms is a
   sequence of room ids; confidences are integer tenths. *)

Amenities == {"tv"}

RoomList == <<1, 2>>      \* select(Room), in listing order

DefaultRooms ==
    [r \in RoomIds |-> [capacity |-> 2, amenities |-> {}, is_available |-> TRUE]]

Min(a, b) == IF a < b THEN a ELSE b

get_available_rooms_for_slot(booking_date, start_time, end_time) ==
    LET free(r) == /\ rooms[r].is_available
                   /\ check_room_availability(bookings, r, booking_date,
                                              start_time, end_time)
    IN SelectSeq(RoomList, free)

(* activity.participants_count or 1 *)
participants_needed(activity) ==
    IF activity.participants_count = None THEN 1
    ELSE Get(activity.participants_count)

(* list.sort(key=capacity): stable, ascending *)
RECURSIVE SortByCapacity(_)
SortByCapacity(seq) ==
    IF seq = <<>> THEN <<>>
    ELSE LET r == seq[Len(seq)]
             s == SortByCapacity(SubSeq(seq, 1, Len(seq) - 1))
             k == Cardinality({i \in 1..Len(s) :
                                 rooms[s[i]].capacity <= rooms[r].capacity})
         IN SubSeq(s, 1, k) \o <<r>> \o SubSeq(s, k + 1, Len(s))

(* The fallback without its sort: the first suitable room in listing
   order. *)
_fallback_room_selection_unsorted(activity, available_rooms) ==
    LET participants == participants_needed(activity)
        fits(r) == rooms[r].capacity >= participants
        equipped(r) == activity.required_amenities \subseteq rooms[r].amenities
        by_capacity == SelectSeq(available_rooms, fits)
        suitable == IF by_capacity = <<>> THEN available_rooms ELSE by_capacity
        filtered == SelectSeq(suitable, equipped)
        suitable_rooms ==
            IF activity.required_amenities # {} /\ filtered # <<>>
            THEN filtered ELSE suitable
    IN [suggested_room_id |-> Some(suitable_rooms[1]),
        confidence_score |-> Some(7),
        alternative_room_ids |->
            SubSeq(suitable_rooms, 2, Min(4, Len(suitable_rooms)))]

_fallback_room_selection(activity, available_rooms) ==
    LET participants == participants_needed(activity)
        fits(r) == rooms[r].capacity >= participants
        equipped(r) == activity.required_amenities \subseteq rooms[r].amenities
        by_capacity == SelectSeq(available_rooms, fits)
        suitable == IF by_capacity = <<>> THEN available_rooms ELSE by_capacity
        filtered == SelectSeq(suitable, equipped)
        suitable_rooms ==
            SortByCapacity(IF activity.required_amenities # {} /\ filtered # <<>>
                           THEN filtered ELSE suitable)
    IN [suggested_room_id |-> Some(suitable_rooms[1]),
        confidence_score |-> Some(7),
        alternative_room_ids |->
            SubSeq(suitable_rooms, 2, Min(4, Len(suitable_rooms)))]

(* answer is what the chat completion call produced: ok = FALSE when the
   call or json.loads raised, otherwise the parsed JSON, returned as is. *)
_get_ai_room_suggestion(activity, available_rooms, answer) ==
    IF available_rooms = <<>>
    THEN [suggested_room_id |-> None, confidence_score |-> None,
          alternative_room_ids |-> <<>>]
    ELSE IF answer.ok
    THEN [suggested_room_id |-> answer.suggested_room_id,
          confidence_score |-> answer.confidence_score,
          alternative_room_ids |-> answer.alternative_room_ids]
    ELSE _fallback_room_selection(activity, available_rooms)

_create_room_suggestion(room, confidence) ==
    [room_id |-> room, capacity |-> rooms[room].capacity,
     amenities |-> rooms[room].amenities, confidence_score |-> confidence]

(* RoomSuggestion.confidence_score: ge 0.0, le 1.0 *)
ValidRoomSuggestion(rs) == rs.confidence_score \in 0..10

(* A warning, by what its text holds: the kind of message, the activity's
   name, and the capacity where the message states it. *)
Warning(text, activity_name, capacity) ==
    [text |-> text, activity |-> activity_name, capacity |-> capacity]

SuggIdle == [pc |-> "idle"]

(* generate_suggestions, explicit mode: activities and date are taken from
   the request. *)
SuggestStart(booking_date, activities) ==
    /\ sugg.pc = "idle"
    /\ sugg' = [pc |-> "loop", booking_date |-> booking_date,
                activities |-> activities, i |-> 1,
                suggestions |-> <<>>, warnings |-> <<>>]
    /\ UNCHANGED <<storeVars, last, bulk, workers, rooms, authVars>>

SuggestResponse(outcome, request, suggestions, warnings) ==
    [op |-> "suggest", outcome |-> outcome, id |-> 0, storage |-> TRUE,
     booking_date |-> request.booking_date, activities |-> request.activities,
     suggestions |-> suggestions, warnings |-> warnings]

(* One pass of the loop over the activities. *)
SuggestActivity(answer) ==
    /\ sugg.pc = "loop"
    /\ sugg.i <= Len(sugg.activities)
    /\ UNCHANGED <<storeVars, bulk, workers, rooms, authVars>>
    /\ LET activity == sugg.activities[sugg.i]
           available_rooms ==
               get_available_rooms_for_slot(sugg.booking_date, activity.start_time,
                                            activity.end_time)
           needed == participants_needed(activity)
           meets(r) == /\ rooms[r].capacity >= needed
                       /\ activity.required_amenities \subseteq rooms[r].amenities
           filtered_rooms == SelectSeq(available_rooms, meets)
           ai_result == _get_ai_room_suggestion(activity, filtered_rooms, answer)
           listed(r) == \E k \in 1..Len(available_rooms) : available_rooms[k] = r
           best == IF ai_result.confidence_score = None THEN 8
                   ELSE Get(ai_result.confidence_score)
           other == (IF ai_result.confidence_score = None THEN 7
                     ELSE Get(ai_result.confidence_score)) - 1
           suggested_room ==
               _create_room_suggestion(Get(ai_result.suggested_room_id), best)
           alt_ids == SelectSeq(SubSeq(ai_result.alternative_room_ids, 1,
                                       Min(3, Len(ai_result.alternative_room_ids))),
                                listed)
           alternative_rooms ==
               [k \in 1..Len(alt_ids) |-> _create_room_suggestion(alt_ids[k], other)]
           skip(ws) == /\ sugg' = [sugg EXCEPT !.i = @ + 1, !.warnings = @ \o ws]
                       /\ UNCHANGED last
       IN IF available_rooms = <<>>
          THEN skip(<<Warning("No available rooms", activity.name, None)>>)
          ELSE IF filtered_rooms = <<>>
          THEN skip(<<Warning("No rooms match constraints", activity.name,
                              Some(needed))>>)
          ELSE IF ai_result.suggested_room_id = None
          THEN skip(<<Warning("Could not find suitable room", activity.name, None)>>)
          ELSE IF ~ listed(Get(ai_result.suggested_room_id))
          THEN skip(<<>>)
          ELSE IF \/ ~ ValidRoomSuggestion(suggested_room)
                  \/ \E k \in 1..Len(alt_ids) :
                        ~ ValidRoomSuggestion(alternative_rooms[k])
          THEN /\ last' = SuggestResponse("raised", sugg, <<>>, <<>>)
               /\ sugg' = SuggIdle
          ELSE /\ sugg' = [sugg EXCEPT
                      !.i = @ + 1,
                      !.suggestions = Append(@,
                          [activity_name |-> activity.name,
                           start_time |-> activity.start_time,
                           end_time |-> activity.end_time,
                           suggested_room |-> suggested_room,
                           alternative_rooms |-> alternative_rooms,
                           participants_count |-> needed])]
               /\ UNCHANGED last

(* A return that books the first suggested room for its activity. *)
SuggestReturn_reserving ==
    /\ sugg.pc = "loop"
    /\ sugg.i > Len(sugg.activities)
    /\ last' = SuggestResponse(IF sugg.suggestions = <<>> THEN "ValueError" ELSE "ok",
                               sugg, sugg.suggestions, sugg.warnings)
    /\ sugg' = SuggIdle
    /\ IF sugg.suggestions = <<>>
       THEN UNCHANGED storeVars
       ELSE /\ bookings' = bookings \cup
                  {NewBooking(nextId,
                      BookingCreate(sugg.suggestions[1].suggested_room.room_id,
                                    sugg.booking_date,
                                    sugg.suggestions[1].start_time,
                                    sugg.suggestions[1].end_time, {}), 1)}
            /\ nextId' = nextId + 1
    /\ UNCHANGED <<bulk, workers, rooms, authVars>>

(* After the loop: ValueError with the warnings when nothing was suggested,
   otherwise the response with the warnings as overall_notes. *)
SuggestReturn ==
    /\ sugg.pc = "loop"
    /\ sugg.i > Len(sugg.activities)
    /\ last' = SuggestResponse(IF sugg.suggestions = <<>> THEN "ValueError" ELSE "ok",
                               sugg, sugg.suggestions, sugg.warnings)
    /\ sugg' = SuggIdle
    /\ UNCHANGED <<storeVars, bulk, workers, rooms, authVars>>

(* generate_suggestions, prompt mode.  parsed_data is what
   _parse_prompt_to_activities returns: [ok |-> FALSE] when the call raises,
   otherwise the decoded JSON object with an optional date string and a
   list of activity entries whose name and time strings may be missing. *)

(* datetime.strptime(s, "%H:%M"): the hour is one or two digits in 0..23;
   None stands for the ValueError raised otherwise. *)
strptime(s) ==
    CASE s = "01:00" -> Some(1)
      [] s = "2:00"  -> Some(2)
      [] s = "03:00" -> Some(3)
      [] OTHER       -> None

(* datetime.fromisoformat(s).date(); None stands for the ValueError. *)
fromisoformat(s) ==
    CASE s = "2025-11-11" -> Some(1)
      [] s = "2025-11-12" -> Some(2)
      [] OTHER            -> None

(* An entry the conversion loop turns into an ActivityRequest. *)
Usable(act_data) ==
    /\ act_data.name # None
    /\ act_data.start_time # None
    /\ act_data.end_time # None
    /\ strptime(Get(act_data.start_time)) # None
    /\ strptime(Get(act_data.end_time)) # None

ActivityRequest(act_data) ==
    [name |-> Get(act_data.name),
     start_time |-> Get(strptime(Get(act_data.start_time))),
     end_time |-> Get(strptime(Get(act_data.end_time))),
     participants_count |-> Some(1),
     required_amenities |-> {}]

(* The warning appended for an entry that is skipped. *)
SkipWarning(act_data) ==
    IF act_data.name = None
    THEN Warning("Skipped activity without name", "", None)
    ELSE IF act_data.start_time = None \/ act_data.end_time = None
    THEN Warning("missing start_time or end_time", Get(act_data.name), None)
    ELSE Warning("Skipped invalid activity", "", None)

Unusable(act_data) == ~ Usable(act_data)

(* The conversion loop over activities_data. *)
ConvertActivities(activities_data) ==
    LET kept == SelectSeq(activities_data, Usable)
        skipped == SelectSeq(activities_data, Unusable)
    IN [activities |-> [k \in 1..Len(kept) |-> ActivityRequest(kept[k])],
        warnings |-> [k \in 1..Len(skipped) |-> SkipWarning(skipped[k])]]

(* The date of the request: the calendar date when supplied, otherwise the
   date string of the interpretation. *)
EstablishDate(booking_date, parsed_data) ==
    IF booking_date # None
    THEN [raised |-> FALSE, error |-> "", date |-> Get(booking_date)]
    ELSE IF parsed_data.booking_date # None
    THEN (IF fromisoformat(Get(parsed_data.booking_date)) = None
          THEN [raised |-> TRUE, error |-> "Invalid isoformat string", date |-> 0]
          ELSE [raised |-> FALSE, error |-> "",
                date |-> Get(fromisoformat(Get(parsed_data.booking_date)))])
    ELSE [raised |-> TRUE, error |-> "Could not determine booking date",
          date |-> 0]

PromptResponse(booking_date, parsed_data, error, warnings) ==
    [op |-> "suggest", outcome |-> "ValueError", id |-> 0, storage |-> TRUE,
     booking_date |-> booking_date, parsed_data |-> parsed_data,
     error |-> error, suggestions |-> <<>>, warnings |-> warnings]

(* The attributes of an EventSuggestionRequest object, and those the
   prompt branch reads from it when it calls _parse_prompt_to_activities. *)
EventSuggestionRequest_fields == {"booking_date", "activities", "general_preferences"}
prompt_mode_reads == {"prompt", "booking_date", "general_preferences"}

(* The request arrives without activities: the call of the interpreter
   with the request's attributes, then date and conversion of the entries.
   Reading an attribute the request does not have raises inside the try
   block, before the interpreter is called; parsed_data is what the
   interpreter would answer.  With no activity left the loop over the
   activities has nothing to do and the ValueError after it is raised at
   once. *)
SuggestPrompt(booking_date, parsed_data) ==
    /\ sugg.pc = "idle"
    /\ UNCHANGED <<storeVars, bulk, workers, rooms, authVars>>
    /\ LET fail(error, ws) ==
               /\ last' = PromptResponse(booking_date, parsed_data, error, ws)
               /\ sugg' = SuggIdle
       IN IF ~ (prompt_mode_reads \subseteq EventSuggestionRequest_fields)
          THEN fail("object has no attribute", <<>>)
          ELSE IF ~ parsed_data.ok
          THEN fail("Failed to parse event request", <<>>)
          ELSE LET established == EstablishDate(booking_date, parsed_data)
                   converted == ConvertActivities(parsed_data.activities)
               IN IF established.raised
                  THEN fail(established.error, <<>>)
                  ELSE IF parsed_data.activities = <<>>
                  THEN fail("Could not extract any activities", <<>>)
                  ELSE IF converted.activities = <<>>
                  THEN fail("Could not generate any suggestions",
                            converted.warnings)
                  ELSE /\ sugg' = [pc |-> "loop",
                                   booking_date |-> established.date,
                                   activities |-> converted.activities,
                                   i |-> 1,
                                   suggestions |-> <<>>,
                                   warnings |-> converted.warnings,
                                   requested_date |-> booking_date,
                                   parsed_data |-> parsed_data]
                       /\ UNCHANGED last

----------------------------------------------------------------------------
(* routes/auth.py: POST /auth/refresh and POST /auth/logout.  A token is
   what decode_token reads from it: subject, type and expiry; a string that
   does not decode has type "garbage".  refresh_token is suspended once, at
   user_crud.get, between its look at blacklisted_tokens and its insertion
   into it. *)

MaxExp == 2           \* expiry stamps of tokens are 1..MaxExp

Garbage == [sub |-> 0, type |-> "garbage", exp |-> 0]

Tokens ==
    [sub : {1, 9}, type : {"refresh", "access"}, exp : 1..MaxExp] \cup {Garbage}

(* decode_token: the payload, or None for the HTTPException it raises. *)
decode_token(token) == IF token.type = "garbage" THEN None ELSE Some(token)

(* user_crud.get followed by "not user or not user.is_active". *)
ActiveUser(user_id) == user_id \in Users

create_refresh_token(subject, exp) ==
    [sub |-> subject, type |-> "refresh", exp |-> exp]

RefreshersIdle == [w \in Workers |-> [pc |-> "idle"]]

Refreshed(w, token, outcome, refresh_token) ==
    refreshers' = [refreshers EXCEPT ![w] =
        [pc |-> "done", token |-> token, outcome |-> outcome,
         refresh_token |-> refresh_token]]

(* refresh_token that inserts into the blacklist without having looked at
   it. *)
RefreshReceive_unchecked(w, token) ==
    /\ refreshers[w].pc \in {"idle", "done"}
    /\ UNCHANGED <<storeVars, last, bulk, workers, rooms, sugg, blacklisted_tokens>>
    /\ IF decode_token(token) = None
       THEN Refreshed(w, token, "401_NOT_VALIDATED", None)
       ELSE IF Get(decode_token(token)).type # "refresh"
       THEN Refreshed(w, token, "401_NOT_VALIDATED", None)
       ELSE refreshers' = [refreshers EXCEPT ![w] =
                [pc |-> "get_user", token |-> token,
                 user_id |-> Get(decode_token(token)).sub]]

(* refresh_token up to its await: the blacklist test and the decoding. *)
RefreshReceive(w, token) ==
    /\ refreshers[w].pc \in {"idle", "done"}
    /\ UNCHANGED <<storeVars, last, bulk, workers, rooms, sugg, blacklisted_tokens>>
    /\ IF token \in blacklisted_tokens
       THEN Refreshed(w, token, "401_REVOKED", None)
       ELSE IF decode_token(token) = None
       THEN Refreshed(w, token, "401_NOT_VALIDATED", None)
       ELSE IF Get(decode_token(token)).type # "refresh"
       THEN Refreshed(w, token, "401_NOT_VALIDATED", None)
       ELSE refreshers' = [refreshers EXCEPT ![w] =
                [pc |-> "get_user", token |-> token,
                 user_id |-> Get(decode_token(token)).sub]]

(* refresh_token after user_crud.get: the user test, the insertion into the
   blacklist and the new tokens; exp is the expiry of the new refresh
   token, not before that of the old one. *)
RefreshGetUser(w, exp) ==
    /\ refreshers[w].pc = "get_user"
    /\ exp >= refreshers[w].token.exp
    /\ UNCHANGED <<storeVars, last, bulk, workers, rooms, sugg>>
    /\ IF ~ ActiveUser(refreshers[w].user_id)
       THEN /\ Refreshed(w, refreshers[w].token, "401_NO_USER", None)
            /\ UNCHANGED blacklisted_tokens
       ELSE /\ blacklisted_tokens' = blacklisted_tokens \cup {refreshers[w].token}
            /\ Refreshed(w, refreshers[w].token, "200_OK",
                         Some(create_refresh_token(refreshers[w].user_id, exp)))

(* POST /auth/logout *)
Logout(token) ==
    /\ blacklisted_tokens' = blacklisted_tokens \cup {token}
    /\ last' = [op |-> "logout", outcome |-> "200_OK", id |-> 0,
                storage |-> FALSE, token |-> token]
    /\ UNCHANGED <<storeVars, bulk, workers, rooms, sugg, refreshers>>

MaxBatch == 2         \* items of a confirm-bulk batch in the lifecycle specification

NoResponse == Response("none", "none", 0, FALSE)

Init ==
    /\ bookings = {}
    /\ nextId = 1
    /\ last = NoResponse
    /\ bulk = BulkIdle
    /\ blacklisted_tokens = {}
    /\ refreshers = RefreshersIdle
    /\ workers = WorkersIdle
    /\ rooms = DefaultRooms
    /\ sugg = SuggIdle

Optional(S) == {None} \cup {Some(v) : v \in S}
BookingIds == 1..MaxBookings
Activities == {"a1", "a2"}

(* Inputs of the lifecycle specification. *)
LRooms == {1, 3}
LDates == {1}
LParticipants == {{}}
LFaults == {FALSE}
LActivities == {"a1"}
LUpdates == [booking_date : {None}, start_time : Optional(Times),
             end_time : Optional(Times)]

Next ==
    \/ /\ bulk.pc = "idle"
       /\ nextId <= MaxBookings
       /\ \E room_id \in LRooms, d \in LDates, s \in Times, e \in Times,
             ps \in LParticipants, fault \in LFaults :
             CreateBooking(1, room_id, d, s, e, ps, fault)
    \/ /\ bulk.pc = "idle"
       /\ \E u \in Users, id \in BookingIds, upd \in LUpdates :
             UpdateBooking(u, id, upd)
    \/ /\ bulk.pc = "idle"
       /\ \E u \in Users, id \in BookingIds : CancelBooking(u, id)
    \/ /\ bulk.pc = "idle"
       /\ \E u \in Users, id \in BookingIds : DeleteBooking(u, id)
    \/ /\ bulk.pc = "idle"
       /\ \E u \in Users, id \in BookingIds : ApproveBooking(u, id)
    \/ /\ bulk.pc = "idle"
       /\ \E u \in Users, id \in BookingIds, reason \in Optional({"r"}) :
             RejectBooking(u, id, reason)
    \/ /\ nextId <= MaxBookings
       /\ \E d \in LDates, n \in 1..MaxBatch : BulkStart(1, d, n)
    \/ /\ nextId <= MaxBookings
       /\ \E room_id \in LRooms, a \in LActivities, s \in Times, e \in Times,
             ps \in LParticipants, fault \in LFaults :
             BulkItem(room_id, a, s, e, ps, fault)
    \/ BulkReturn

Spec == Init /\ [][Next]_vars

----------------------------------------------------------------------------
(* Properties of the booking lifecycle *)

Active(b) == b.status # "cancelled"
SameSlotDay(a, b) == a.room_id = b.room_id /\ a.booking_date = b.booking_date

C3_InvalidIntervalRejected ==
    [][ (last'.op = "create" /\ last'.end_time <= last'.start_time) =>
          \A u \in Users, ps \in SUBSET Users, f \in BOOLEAN :
              CreateBooking(u, last'.room_id, last'.booking_date,
                            last'.start_time, last'.end_time, ps, f)
                => /\ last'.outcome = "400_BAD_REQUEST"
                   /\ ~ last'.storage
                   /\ bookings' = bookings
                   /\ nextId' = nextId ]_vars

(* A create with an empty or inverted interval was refused while bookings
   are stored. *)
C3_Witness ==
    /\ last.op = "create"
    /\ last.end_time <= last.start_time
    /\ last.outcome = "400_BAD_REQUEST"
    /\ bookings # {}

\* C5: after the organizer cancels a booking, the row still exists with
\* status cancelled, its interval no longer makes the availability check
\* answer false, and a following create request for the same room, date and
\* interval succeeds.
C5_CancelFreesSlot ==
    [][ (last.op = "cancel" /\ last.outcome = "200_OK") =>
          /\ get_booking(bookings, last.id) # {}
          /\ LET b == Get(get_booking(bookings, last.id)) IN
             /\ b.status = "cancelled"
             /\ check_room_availability({b}, b.room_id, b.booking_date,
                                        b.start_time, b.end_time)
             /\ \A u \in Users :
                   CreateBooking(u, b.room_id, b.booking_date, b.start_time,
                                 b.end_time, {}, FALSE)
                     => last'.outcome = "201_CREATED" ]_vars

\* C6: approve or reject by a manager on a booking that is not pending
\* (approved, rejected or absent) is answered 404 and leaves every booking
\* unchanged.
C6_NonPendingUntouched ==
    [][ (last'.op \in {"approve", "reject"}) =>
          \A u \in Users, reason \in Optional({"r"}) :
              ( /\ is_manager(u)
                /\ ~ \E b \in bookings : b.id = last'.id /\ b.approval_status = "pending"
                /\ \/ ApproveBooking(u, last'.id)
                   \/ RejectBooking(u, last'.id, reason) )
              => /\ last'.outcome = "404_NOT_FOUND"
                 /\ bookings' = bookings ]_vars

(* An approve was refused for a booking that is already rejected and still
   carries its reason. *)
C6_Witness ==
    /\ last.op = "approve"
    /\ last.outcome = "404_NOT_FOUND"
    /\ \E b \in bookings :
          /\ b.id = last.id
          /\ b.approval_status = "rejected"
          /\ b.rejection_reason = Some("r")

----------------------------------------------------------------------------
(* The availability check and the create on stores of several rooms and
   dates.  The initial stores are those the lifecycle reaches: rows with
   valid intervals, upcoming or cancelled, no two active rows of a room and
   date overlapping. *)

MaxAvailRows == 2     \* rows of an initial store

StoredRows(id) ==
    { [NewBooking(id, BookingCreate(r, d, s, e, {}), 1) EXCEPT !.status = st] :
        r \in RoomIds, d \in Dates,
        s \in Times, e \in Times, st \in {"upcoming", "cancelled"} }

Compatible(S, row) ==
    /\ row.start_time < row.end_time
    /\ Active(row) => check_room_availability(S, row.room_id, row.booking_date,
                                              row.start_time, row.end_time)

RECURSIVE ReachableStores(_)
ReachableStores(n) ==
    IF n = 0 THEN {{}}
    ELSE LET smaller == ReachableStores(n - 1)
         IN smaller \cup
              UNION { { S \cup {row} :
                          row \in {x \in StoredRows(n) : Compatible(S, x)} } :
                      S \in smaller }

InitAvail ==
    /\ bookings \in ReachableStores(MaxAvailRows)
    /\ nextId = MaxAvailRows + 1
    /\ last = NoResponse
    /\ bulk = BulkIdle
    /\ blacklisted_tokens = {}
    /\ refreshers = RefreshersIdle
    /\ workers = WorkersIdle
    /\ rooms = DefaultRooms
    /\ sugg = SuggIdle

NextAvail ==
    \/ \E room_id \in RequestRoomIds, d \in Dates, s \in Times, e \in Times :
          CheckAvailability(room_id, d, s, e)
    \/ /\ nextId <= MaxAvailRows + 1
       /\ \E room_id \in RequestRoomIds, d \in Dates, s \in Times, e \in Times :
             CreateBooking(2, room_id, d, s, e, {}, FALSE)

SpecAvail == InitAvail /\ [][NextAvail]_vars

\* C4: the availability check answers false iff at least one non-cancelled
\* booking of that room and date satisfies start < end_b and start_b < end,
\* and true otherwise; so an interval that only touches a booking's boundary
\* is available and a create for a valid interval on an existing room
\* succeeds exactly when the check answers true.
C4_AvailabilityIffNoOverlap ==
    [][ /\ (last'.op = "check") =>
            \A r \in RequestRoomIds, d \in Dates, s \in Times, e \in Times :
               CheckAvailability(r, d, s, e) =>
                  (last'.available <=>
                     ~ \E b \in bookings :
                         /\ b.room_id = r /\ b.booking_date = d
                         /\ b.status # "cancelled"
                         /\ s < b.end_time /\ b.start_time < e)
        /\ (last'.op = "create" /\ last'.start_time < last'.end_time
                /\ last'.room_id \in RoomIds) =>
            \A u \in Users :
               CreateBooking(u, last'.room_id, last'.booking_date,
                             last'.start_time, last'.end_time, {}, FALSE) =>
                  (last'.outcome = "201_CREATED" <=>
                     ~ \E b \in bookings :
                         /\ b.room_id = last'.room_id
                         /\ b.booking_date = last'.booking_date
                         /\ b.status # "cancelled"
                         /\ last'.start_time < b.end_time
                         /\ b.start_time < last'.end_time) ]_vars

(* A booking was created right before an existing active one on a room
   that holds several bookings, next to a cancelled one it overlaps, and a
   later check of an overlapping interval answered unavailable. *)
C4_Witness ==
    /\ last.op = "check"
    /\ ~ last.available
    /\ \E a \in bookings, b \in bookings, c \in bookings :
          /\ a.id = MaxAvailRows + 1
          /\ SameSlotDay(a, b) /\ SameSlotDay(a, c)
          /\ Active(a) /\ Active(b) /\ ~ Active(c)
          /\ a.end_time = b.start_time
          /\ Overlaps(a.start_time, a.end_time, c.start_time, c.end_time)

----------------------------------------------------------------------------
(* Two requests for slots of one room and date, handled concurrently. *)

ConcKinds == {"create", "bulk_item"}

NextConc ==
    \/ \E w \in Workers, kind \in ConcKinds, room_id \in LRooms,
          s \in Times, e \in Times :
          Receive(w, kind, room_id, 1, s, e)
    \/ \E w \in Workers : AwaitGetRoom(w)
    \/ \E w \in Workers : AwaitRouteCheck(w)
    \/ \E w \in Workers : AwaitCrudCheck(w)
    \/ \E w \in Workers : AwaitInsert(w)

SpecConc == Init /\ [][NextConc]_vars

Succeeded(w) == workers[w].pc = "done" /\ workers[w].id # None

\* C2: of two create requests (single or items of a bulk confirmation) for
\* overlapping intervals on the same room and date that are processed
\* concurrently, at most one succeeds.
C2_AtMostOneSucceeds ==
    \A w1 \in Workers, w2 \in Workers :
        (w1 # w2 /\ Succeeded(w1) /\ Succeeded(w2)
            /\ workers[w1].room_id = workers[w2].room_id
            /\ workers[w1].booking_date = workers[w2].booking_date)
          => ~ Overlaps(workers[w1].start_time, workers[w1].end_time,
                        workers[w2].start_time, workers[w2].end_time)

----------------------------------------------------------------------------
(* Bulk confirmations of up to three items while another user books
   between the items. *)

MaxBulk == 3          \* items of a batch
MaxBulkRows == 3      \* rows stored in this specification

NextBulk ==
    \/ /\ nextId <= MaxBulkRows
       /\ last.op # "confirm_bulk"
       /\ \E n \in 1..MaxBulk : BulkStart(1, 1, n)
    \/ /\ nextId <= MaxBulkRows
       /\ \E room_id \in RequestRoomIds, a \in Activities, s \in Times, e \in Times,
             fault \in BOOLEAN :
             s < e /\ BulkItem(room_id, a, s, e, {}, fault)
    \/ BulkReturn
    \/ /\ nextId <= MaxBulkRows
       /\ \E s \in Times, e \in Times :
             s < e /\ CreateBooking(2, 1, 1, s, e, {}, FALSE)

SpecBulk == Init /\ [][NextBulk]_vars

NotStored(entry) == entry.row = None

ActivityOf(seq) == [i \in DOMAIN seq |-> seq[i].activity]

\* C7: in confirmBulk each item is processed independently: a failure of one
\* item (room gone, slot just taken, an error raised while creating) is
\* recorded in the failures with that item's activity label and processing
\* continues with the next item, so every item of the batch is handled and
\* every valid item is created.
C7_ItemsIndependent ==
    last.op = "confirm_bulk" =>
        /\ Len(last.log) = last.n
        /\ \A i \in 1..Len(last.log) :
              last.log[i].valid => last.log[i].row # None
        /\ ActivityOf(last.failed_bookings)
              = ActivityOf(SelectSeq(last.log, NotStored))
        /\ last.success_count + last.failure_count = last.n

(* Three items, the slot of the second taken by the other user after the
   first was created: two ids and one failure naming the second item. *)
C7_Witness ==
    /\ last.op = "confirm_bulk"
    /\ last.n = 3
    /\ last.success_count = 2
    /\ last.log[1].row = Some(1)
    /\ last.log[2].row = None
    /\ last.log[3].row = Some(3)
    /\ last.log[2].activity = "a2"
    /\ last.log[1].activity = "a1" /\ last.log[3].activity = "a1"
    /\ last.failed_bookings = <<Failure("a2", "no longer available")>>
    /\ \E b \in bookings : b.id = 2 /\ b.user_id = 2

Stored(entry) == entry.row # None

RowIdOf(seq) == [i \in DOMAIN seq |-> Get(seq[i].row)]

\* C8: the created ids that confirmBulk returns are exactly the ids of the
\* bookings this call persisted, in order, each one a row of the organizer
\* in the store, even when other items of the batch failed with a storage
\* error.
C8_CreatedIdsPersisted ==
    last.op = "confirm_bulk" =>
        /\ last.created_bookings = RowIdOf(SelectSeq(last.log, Stored))
        /\ \A i \in 1..Len(last.created_bookings) :
              \E b \in bookings : b.id = last.created_bookings[i] /\ b.user_id = 1
        /\ \A i \in 1..Len(last.created_bookings), j \in 1..Len(last.created_bookings) :
              last.created_bookings[i] = last.created_bookings[j] => i = j

(* Creating the second of three items raised; the first and the third are
   stored and returned. *)
C8_Witness ==
    /\ last.op = "confirm_bulk"
    /\ last.n = 3
    /\ last.failed_bookings = <<Failure("a2", "exception")>>
    /\ last.created_bookings = <<1, 2>>
    /\ \A i \in {1, 2} : \E b \in bookings : b.id = i /\ b.user_id = 1
    /\ Cardinality(bookings) = 2

----------------------------------------------------------------------------
(* Suggestions for requests of one or two activities, over every rooms
   table of two rooms and stores with one booking of the requested slot;
   the external service answers with any room ids, or fails. *)

MaxCapacity == 2      \* room capacities and participant counts
MaxActivities == 2    \* activities of a suggest request
MaxAlternatives == 1  \* alternative ids in an answer of the external service

RoomTables ==
    [RoomIds -> [capacity : 1..MaxCapacity, amenities : SUBSET Amenities,
                 is_available : BOOLEAN]]

SuggestStores ==
    { S \in ReachableStores(1) :
        \A b \in S : b.room_id = 1 /\ b.booking_date = 1 /\ b.start_time = 1
                     /\ b.end_time = 2 }

ActivityRequests(name) ==
    [name : {name}, start_time : {1}, end_time : {2},
     participants_count : {None, Some(MaxCapacity)},
     required_amenities : SUBSET Amenities]

SuggestRequests ==
    { <<a>> : a \in ActivityRequests("a1") }
      \cup (IF MaxActivities < 2 THEN {}
            ELSE { <<a, b>> : a \in ActivityRequests("a1"),
                              b \in ActivityRequests("a2") })

Answers ==
    {[ok |-> FALSE]}
      \cup [ok : {TRUE}, suggested_room_id : Optional(RequestRoomIds),
            confidence_score : {None, Some(0)},
            alternative_room_ids :
                UNION {[1..n -> RequestRoomIds] : n \in 0..MaxAlternatives}]

InitSuggest ==
    /\ bookings \in SuggestStores
    /\ nextId = 2
    /\ last = NoResponse
    /\ bulk = BulkIdle
    /\ blacklisted_tokens = {}
    /\ refreshers = RefreshersIdle
    /\ workers = WorkersIdle
    /\ rooms \in RoomTables
    /\ sugg = SuggIdle

NextSuggest ==
    \/ /\ last.op = "none"
       /\ \E activities \in SuggestRequests : SuggestStart(1, activities)
    \/ \E answer \in Answers : SuggestActivity(answer)
    \/ SuggestReturn

SpecSuggest == InitSuggest /\ [][NextSuggest]_vars

RoomsOf(suggestion) ==
    {suggestion.suggested_room.room_id}
      \cup {suggestion.alternative_rooms[k].room_id :
               k \in 1..Len(suggestion.alternative_rooms)}

\* C9: every room of a returned suggestion, the best room or an alternative,
\* has its availability flag set, is free for the activity's slot, has a
\* capacity of at least the activity's participant count (1 when
\* unspecified) and has every required amenity, whatever room ids the
\* external service returns.
C9_SuggestedRoomsMeetConstraints ==
    (last.op = "suggest" /\ last.outcome = "ok") =>
        \A k \in 1..Len(last.suggestions), i \in 1..Len(last.activities) :
            LET suggestion == last.suggestions[k]
                activity == last.activities[i]
            IN activity.name = suggestion.activity_name =>
                 \A r \in RoomsOf(suggestion) :
                    /\ rooms[r].is_available
                    /\ check_room_availability(bookings, r, last.booking_date,
                                               activity.start_time, activity.end_time)
                    /\ rooms[r].capacity >= participants_needed(activity)
                    /\ activity.required_amenities \subseteq rooms[r].amenities

HasFittingRoom(activity, booking_date) ==
    \E r \in RoomIds :
        /\ rooms[r].is_available
        /\ check_room_availability(bookings, r, booking_date, activity.start_time,
                                   activity.end_time)
        /\ rooms[r].capacity >= participants_needed(activity)

HasSatisfyingRoom(activity, booking_date) ==
    \E r \in RoomIds :
        /\ rooms[r].is_available
        /\ check_room_availability(bookings, r, booking_date, activity.start_time,
                                   activity.end_time)
        /\ rooms[r].capacity >= participants_needed(activity)
        /\ activity.required_amenities \subseteq rooms[r].amenities

WarningsFor(name) ==
    {k \in 1..Len(last.warnings) : last.warnings[k].activity = name}

SuggestionsFor(name) ==
    {k \in 1..Len(last.suggestions) : last.suggestions[k].activity_name = name}

\* C10: in a suggest request with several activities, an activity for which
\* no available room has sufficient capacity yields no suggestion and one
\* warning that names the activity and the unmet capacity, while every other
\* activity of the request that has a constraint-satisfying room still gets
\* its suggestion.
C10_UnmetCapacityIsolated ==
    (/\ last.op = "suggest"
     /\ Len(last.activities) > 1
     /\ \E j \in 1..Len(last.activities) :
           ~ HasFittingRoom(last.activities[j], last.booking_date)) =>
        \A i \in 1..Len(last.activities) :
            LET activity == last.activities[i]
            IN IF ~ HasFittingRoom(activity, last.booking_date)
               THEN /\ SuggestionsFor(activity.name) = {}
                    /\ Cardinality(WarningsFor(activity.name)) = 1
                    /\ \A k \in WarningsFor(activity.name) :
                          last.warnings[k].capacity
                              = Some(participants_needed(activity))
               ELSE HasSatisfyingRoom(activity, last.booking_date)
                       => SuggestionsFor(activity.name) # {}

\* C11: suggest fails with an aggregate error that contains all accumulated
\* warnings iff the final suggestion list is empty; when at least one
\* activity produced a suggestion it returns the suggestions, with the
\* warnings joined as notes when any exist and no notes when there are none.
C11_AggregateErrorIffEmpty ==
    [][ (sugg.pc = "loop" /\ sugg'.pc = "idle") =>
          /\ last'.op = "suggest"
          /\ last'.outcome = "ValueError" <=> sugg.suggestions = <<>>
          /\ last'.outcome = "ValueError" => last'.warnings = sugg.warnings
          /\ sugg.suggestions # <<>> =>
                /\ last'.outcome = "ok"
                /\ last'.suggestions = sugg.suggestions
                /\ last'.warnings = sugg.warnings ]_vars

----------------------------------------------------------------------------
(* The advisor's fallback selection as a function of its inputs: every
   table of up to five rooms, all of them candidates in listing order, and
   every activity. *)

MaxFallbackRooms == 5   \* candidate rooms handed to the fallback

InitFallback ==
    /\ bookings = {}
    /\ nextId = 1
    /\ last = NoResponse
    /\ bulk = BulkIdle
    /\ blacklisted_tokens = {}
    /\ refreshers = RefreshersIdle
    /\ workers = WorkersIdle
    /\ rooms \in UNION { [1..n -> [capacity : 1..MaxCapacity,
                                   amenities : SUBSET Amenities,
                                   is_available : {TRUE}]] :
                         n \in 1..MaxFallbackRooms }
    /\ sugg = SuggIdle

FallbackSelection(activity) ==
    LET candidates == [i \in 1..Cardinality(DOMAIN rooms) |-> i]
    IN /\ last' = [op |-> "fallback", outcome |-> "ok", id |-> 0, storage |-> FALSE,
                   activity |-> activity, candidates |-> candidates,
                   result |-> _fallback_room_selection(activity, candidates)]
       /\ UNCHANGED <<storeVars, bulk, workers, rooms, authVars, sugg>>

NextFallback == \E activity \in ActivityRequests("a1") : FallbackSelection(activity)

SpecFallback == InitFallback /\ [][NextFallback]_vars

Meets(r, activity) ==
    /\ rooms[r].capacity >= participants_needed(activity)
    /\ activity.required_amenities \subseteq rooms[r].amenities

\* C12: when the external call fails, the fallback returns as primary the
\* room of smallest capacity among the candidates meeting the capacity and
\* amenity constraints, ties broken by listing order, and as alternatives
\* the next up to three such rooms in ascending capacity order, none of
\* which is the primary.
C12_FallbackSmallestFit ==
    last.op = "fallback" =>
        LET meeting == {r \in DOMAIN rooms : Meets(r, last.activity)}
            primary == Get(last.result.suggested_room_id)
            alts == last.result.alternative_room_ids
            Before(a, b) == \/ rooms[a].capacity < rooms[b].capacity
                            \/ rooms[a].capacity = rooms[b].capacity /\ a < b
        IN meeting # {} =>
             /\ primary \in meeting
             /\ \A r \in meeting \ {primary} : Before(primary, r)
             /\ Len(alts) = Min(3, Cardinality(meeting) - 1)
             /\ \A k \in 1..Len(alts) :
                   /\ alts[k] \in meeting \ {primary}
                   /\ \A m \in 1..Len(alts) : k < m => Before(alts[k], alts[m])
                   /\ \A r \in meeting \ ({primary} \cup {alts[m] : m \in 1..Len(alts)}) :
                         Before(alts[k], r)

(* Five candidates meet the constraints, two of them tie on the smallest
   capacity and the first listed room is larger: three alternatives. *)
C12_Witness ==
    /\ last.op = "fallback"
    /\ Cardinality({r \in DOMAIN rooms : Meets(r, last.activity)}) = 5
    /\ last.activity.required_amenities # {}
    /\ rooms[1].capacity > rooms[2].capacity
    /\ rooms[2].capacity = rooms[4].capacity
    /\ last.result.suggested_room_id = Some(2)
    /\ last.result.alternative_room_ids = <<4, 1, 3>>

(* The rooms handed to the advisor for an activity: available, free for
   the slot and meeting the activity's constraints. *)
CandidatesFor(activity, booking_date) ==
    LET meets(r) == Meets(r, activity)
    IN SelectSeq(get_available_rooms_for_slot(booking_date, activity.start_time,
                                              activity.end_time), meets)

\* C13: for a non-empty candidate list, whenever the external ranking call
\* fails or its response contains no selected room id, the advisor's result
\* is the deterministic fallback selection, so the activity still receives
\* a suggestion (the fallback's primary room) instead of being dropped.
C13_FallbackOnFailureOrNoId ==
    [][ (sugg.pc = "loop" /\ sugg.i <= Len(sugg.activities)) =>
          LET activity == sugg.activities[sugg.i]
              candidates == CandidatesFor(activity, sugg.booking_date)
              fallback == _fallback_room_selection(activity, candidates)
          IN candidates # <<>> =>
               \A answer \in Answers :
                  ((~ answer.ok \/ answer.suggested_room_id = None)
                      /\ SuggestActivity(answer)) =>
                     /\ _get_ai_room_suggestion(activity, candidates, answer) = fallback
                     /\ sugg'.pc = "loop"
                     /\ Len(sugg'.suggestions) = Len(sugg.suggestions) + 1
                     /\ sugg'.suggestions[Len(sugg'.suggestions)].suggested_room.room_id
                           = Get(fallback.suggested_room_id) ]_vars

----------------------------------------------------------------------------
(* routes/event_suggestions.py: POST /event-suggestions/suggest, the
   exposed suggest operation. *)

(* def generate_suggestions(self, db, request, user_id): no defaults *)
generate_suggestions_parameters == {"db", "request", "user_id"}

(* event_suggestion_service.generate_suggestions(db=db, request=request) *)
get_event_suggestions_arguments == {"db", "request"}

(* The call sits in try/except Exception: a call that does not bind every
   parameter raises TypeError before the service runs, answered 500. *)
GetEventSuggestions(booking_date, activities) ==
    IF generate_suggestions_parameters \subseteq get_event_suggestions_arguments
    THEN SuggestStart(booking_date, activities)
    ELSE /\ last' = [op |-> "suggest_route", outcome |-> "500_ERROR", id |-> 0,
                     storage |-> FALSE, booking_date |-> booking_date,
                     activities |-> activities,
                     suggestions |-> <<>>, warnings |-> <<>>]
         /\ UNCHANGED <<storeVars, bulk, workers, rooms, authVars, sugg>>

NextRoute == \E activities \in SuggestRequests : GetEventSuggestions(1, activities)

SpecRoute == InitSuggest /\ [][NextRoute]_vars

\* C14: the exposed suggest operation, called with explicit activities and
\* a date where at least one activity has an available room satisfying its
\* capacity and amenity needs, returns a result with a suggestion for that
\* activity rather than an error, whether the external service answers or
\* is unavailable.
C14_ExposedSuggestReturns ==
    last.op = "suggest_route" =>
        \A i \in 1..Len(last.activities) :
            HasSatisfyingRoom(last.activities[i], last.booking_date) =>
               /\ last.outcome = "200_OK"
               /\ SuggestionsFor(last.activities[i].name) # {}

----------------------------------------------------------------------------
(* Update, cancel and delete on stores of one room whose bookings belong
   to either user. *)

OwnedStores ==
    { { [b EXCEPT !.user_id = owner[b.id]] : b \in S } :
        S \in { X \in ReachableStores(MaxBookings) :
                  \A b \in X : b.room_id = 1 /\ b.booking_date = 1 },
        owner \in [1..MaxBookings -> Users] }

OwnerUpdates ==
    [booking_date : {None}, start_time : Optional(Times),
     end_time : Optional(Times)]

InitOwner ==
    /\ bookings \in OwnedStores
    /\ nextId = MaxBookings + 1
    /\ last = NoResponse
    /\ bulk = BulkIdle
    /\ blacklisted_tokens = {}
    /\ refreshers = RefreshersIdle
    /\ workers = WorkersIdle
    /\ rooms = DefaultRooms
    /\ sugg = SuggIdle

NextOwner ==
    \/ \E u \in Users, id \in BookingIds, upd \in OwnerUpdates :
          UpdateBooking(u, id, upd)
    \/ \E u \in Users, id \in BookingIds : CancelBooking(u, id)
    \/ \E u \in Users, id \in BookingIds : DeleteBooking(u, id)

SpecOwner == InitOwner /\ [][NextOwner]_vars

\* C15: update, cancel and delete requested by a user who is not the
\* booking's organizer fail with the outcome a non-existent booking gets
\* (not found; for an update whose supplied times are out of order, the bad
\* request answered before any lookup) and leave that booking and all other
\* bookings unchanged.
C15_NonOrganizerRefused ==
    [][ (last'.op \in {"update", "cancel", "delete"}) =>
          \A u \in Users :
             (\E b \in bookings : b.id = last'.id /\ b.user_id # u) =>
                /\ (CancelBooking(u, last'.id) \/ DeleteBooking(u, last'.id)) =>
                      /\ last'.outcome = "404_NOT_FOUND"
                      /\ bookings' = bookings
                /\ \A upd \in OwnerUpdates :
                      UpdateBooking(u, last'.id, upd) =>
                         /\ bookings' = bookings
                         /\ last'.outcome =
                               IF /\ upd.start_time # None /\ upd.end_time # None
                                  /\ Get(upd.end_time) <= Get(upd.start_time)
                               THEN "400_BAD_REQUEST" ELSE "404_NOT_FOUND" ]_vars

(* A cancel answered not found although the booking exists and is still
   active: the request came from the other user. *)
C15_Witness ==
    /\ last.op = "cancel"
    /\ last.outcome = "404_NOT_FOUND"
    /\ \E b \in bookings : b.id = last.id /\ Active(b)
    /\ Cardinality(bookings) > 1

----------------------------------------------------------------------------
(* The organizer moving bookings of one room between dates and intervals. *)

MoveUpdates ==
    [booking_date : Optional(Dates), start_time : Optional(Times),
     end_time : Optional(Times)]

InitMove ==
    /\ bookings \in { S \in ReachableStores(MaxBookings) :
                        \A b \in S : b.room_id = 1 }
    /\ nextId = MaxBookings + 1
    /\ last = NoResponse
    /\ bulk = BulkIdle
    /\ blacklisted_tokens = {}
    /\ refreshers = RefreshersIdle
    /\ workers = WorkersIdle
    /\ rooms = DefaultRooms
    /\ sugg = SuggIdle

NextMove ==
    \E id \in BookingIds, upd \in MoveUpdates : UpdateBooking(1, id, upd)

SpecMove == InitMove /\ [][NextMove]_vars

\* C16: an update that changes a booking's date or interval succeeds only
\* if the new slot overlaps no other non-cancelled booking of the room, the
\* booking's own previous occupancy being ignored (a move onto an interval
\* that overlaps only its own old one succeeds); on conflict the update
\* fails and the booking keeps its previous slot.
C16_UpdateChecksOthersOnly ==
    [][ (last'.op = "update") =>
          \A upd \in MoveUpdates :
             (UpdateBooking(1, last'.id, upd)
                 /\ \E b \in bookings : b.id = last'.id) =>
                LET b == Get(get_booking(bookings, last'.id))
                    d == IF upd.booking_date = None THEN b.booking_date
                         ELSE Get(upd.booking_date)
                    s == IF upd.start_time = None THEN b.start_time
                         ELSE Get(upd.start_time)
                    e == IF upd.end_time = None THEN b.end_time
                         ELSE Get(upd.end_time)
                    blocking == {x \in bookings :
                                   /\ x.id # b.id /\ x.room_id = b.room_id
                                   /\ x.booking_date = d /\ Active(x)
                                   /\ s < x.end_time /\ x.start_time < e}
                IN /\ last'.outcome = "200_OK" => blocking = {}
                   /\ (blocking = {} /\ s < e) =>
                         /\ last'.outcome = "200_OK"
                         /\ bookings' = (bookings \ {b}) \cup
                               {[b EXCEPT !.booking_date = d, !.start_time = s,
                                          !.end_time = e]}
                   /\ blocking # {} =>
                         /\ last'.outcome # "200_OK"
                         /\ bookings' = bookings ]_vars

(* An update was accepted that left the booking directly before another
   active booking of the same room and date. *)
C16_Witness ==
    /\ last.op = "update"
    /\ last.outcome = "200_OK"
    /\ \E a \in bookings, b \in bookings :
          /\ a.id = last.id /\ b.id # a.id
          /\ Active(a) /\ Active(b) /\ SameSlotDay(a, b)
          /\ a.start_time = 1 /\ a.end_time = 2
          /\ b.start_time = 2 /\ b.end_time = 3

----------------------------------------------------------------------------
(* Bookings and bulk confirmations whose requested participant ids always
   include the acting user. *)

MaxPartRows == 3      \* rows stored in this specification

WithOrganizer(user) == {P \in SUBSET Users : user \in P}

NextPart ==
    \/ /\ nextId <= MaxPartRows
       /\ \E user \in Users, s \in Times, e \in Times :
             /\ s < e
             /\ \E P \in WithOrganizer(user) :
                   CreateBooking(user, 1, 1, s, e, P, FALSE)
    \/ /\ nextId <= MaxPartRows
       /\ last.op # "confirm_bulk"
       /\ \E user \in Users, n \in 1..MaxBatch : BulkStart(user, 1, n)
    \/ /\ nextId <= MaxPartRows
       /\ bulk.pc = "loop"
       /\ \E s \in Times, e \in Times :
             /\ s < e
             /\ \E P \in WithOrganizer(bulk.user) :
                   BulkItem(1, "a1", s, e, P, FALSE)
    \/ BulkReturn

SpecPart == Init /\ [][NextPart]_vars

\* C17: in every reachable state no booking's participant set contains the
\* booking's organizer, also for bookings created by createBooking or
\* confirmBulk whose requested participant ids include the organizer's id.
C17_OrganizerNotParticipant ==
    \A b \in bookings : b.user_id \notin b.participants

(* A bulk confirmation stored a row for a request naming both users, next
   to a row stored by a create request naming both users. *)
C17_Witness ==
    /\ last.op = "confirm_bulk"
    /\ \E b \in bookings, c \in bookings :
          /\ \E i \in 1..Len(last.created_bookings) : last.created_bookings[i] = b.id
          /\ \A i \in 1..Len(last.created_bookings) : last.created_bookings[i] # c.id
          /\ b.participants = Users \ {b.user_id}
          /\ c.participants = Users \ {c.user_id}
          /\ b.user_id # c.user_id

----------------------------------------------------------------------------
\* C18: no two booking rows ever share the same (room, date, start time,
\* end time), counted over all stored bookings whatever their lifecycle or
\* approval status, after any sequence of create, cancel, reject and bulk
\* confirmation.
C18_NoDuplicateSlotRows ==
    \A a \in bookings, b \in bookings :
        (/\ a.room_id = b.room_id
         /\ a.booking_date = b.booking_date
         /\ a.start_time = b.start_time
         /\ a.end_time = b.end_time) => a.id = b.id

\* C19: in every reachable state every stored booking has its end time
\* strictly after its start time, also after an update that supplies only a
\* new start time or only a new end time, and after confirmBulk items whose
\* end time is not after their start time.
C19_EndAfterStart ==
    \A b \in bookings : b.start_time < b.end_time

----------------------------------------------------------------------------
(* Approval decisions by an ordinary user and two managers, among creates,
   updates and cancellations by the organizer. *)

Reasons == Optional({"r"})

NextApprove ==
    \/ /\ nextId <= MaxBookings
       /\ \E s \in Times, e \in Times :
             s < e /\ CreateBooking(1, 1, 1, s, e, {}, FALSE)
    \/ \E id \in BookingIds, s \in Times, e \in Times :
          /\ s < e
          /\ UpdateBooking(1, id, [booking_date |-> None, start_time |-> Some(s),
                                   end_time |-> Some(e)])
    \/ \E id \in BookingIds : CancelBooking(1, id)
    \/ \E u \in Staff, id \in BookingIds : ApproveBooking(u, id)
    \/ \E u \in Staff, id \in BookingIds, reason \in Reasons :
          RejectBooking(u, id, reason)

SpecApprove == Init /\ [][NextApprove]_vars

Decision(u, id) ==
    \/ ApproveBooking(u, id)
    \/ \E reason \in Reasons : RejectBooking(u, id, reason)

\* C20: a booking's approval status changes only through approve or reject
\* performed by a manager on a pending booking: approve/reject by a
\* non-manager is refused as forbidden and leaves the booking unchanged, and
\* after a successful approve or reject the approver reference is the
\* acting manager and the approval timestamp is set.
C20_ApprovalOnlyByManager ==
    [][ /\ \A b \in bookings, c \in bookings' :
              (b.id = c.id /\ b.approval_status # c.approval_status) =>
                 /\ last'.op \in {"approve", "reject"}
                 /\ last'.id = b.id
                 /\ last'.outcome = "200_OK"
                 /\ b.approval_status = "pending"
                 /\ c.approval_status =
                       (IF last'.op = "approve" THEN "approved" ELSE "rejected")
                 /\ c.approved_at # None
                 /\ \E u \in Staff :
                       /\ is_manager(u)
                       /\ c.approved_by_id = Some(u)
                       /\ Decision(u, b.id)
        /\ \A c \in bookings' :
              (\A b \in bookings : b.id # c.id) => c.approval_status = "pending"
        /\ (last'.op \in {"approve", "reject"}) =>
              \A u \in Staff :
                 (~ is_manager(u) /\ Decision(u, last'.id)) =>
                    /\ last'.outcome = "403_FORBIDDEN"
                    /\ bookings' = bookings ]_vars

(* A reject of a pending booking was refused as forbidden while another
   booking stands approved by the second manager. *)
C20_Witness ==
    /\ last.op = "reject"
    /\ last.outcome = "403_FORBIDDEN"
    /\ \E b \in bookings, c \in bookings :
          /\ b.id = last.id
          /\ b.approval_status = "pending"
          /\ c.approval_status = "approved"
          /\ c.approved_by_id = Some(3)
          /\ c.approved_at # None

----------------------------------------------------------------------------
\* C21: every activity of a suggest request that ends up without a
\* suggestion contributes at least one warning naming it to the notes or to
\* the aggregate error: when no room is available, when no room passes the
\* constraints, when the advisor returns no room id and when it returns a
\* room id that is not among the rooms offered to it.
C21_DroppedActivityWarned ==
    (last.op = "suggest" /\ last.outcome \in {"ok", "ValueError"}) =>
        \A i \in 1..Len(last.activities) :
            SuggestionsFor(last.activities[i].name) = {}
                => WarningsFor(last.activities[i].name) # {}

IsPrefix(s, t) == Len(s) <= Len(t) /\ SubSeq(t, 1, Len(s)) = s

\* C22: an unusable advisor response for one activity (confidence missing
\* or outside [0,1], or so low that an alternative's confidence would be
\* negative) affects at most that activity: the suggestions of the other
\* activities are kept and returned, and the request does not end with a
\* raw fault.
C22_UnusableAnswerScoped ==
    [][ (sugg.pc = "loop") =>
          /\ sugg'.pc = "loop" => IsPrefix(sugg.suggestions, sugg'.suggestions)
          /\ sugg'.pc = "idle" =>
                /\ last'.outcome \in {"ok", "ValueError"}
                /\ last'.suggestions = sugg.suggestions ]_vars

Penalty == 1          \* 0.1, confidences being counted in tenths

Max(a, b) == IF a >= b THEN a ELSE b

\* C23: every returned activity suggestion has at most three alternatives,
\* each alternative's confidence is the best room's confidence minus the
\* penalty of 0.1 but never less than 0, and every confidence of the
\* response lies in [0,1] (0..10 in tenths).
C23_AlternativesPenalised ==
    (last.op = "suggest" /\ last.outcome = "ok") =>
        \A k \in 1..Len(last.suggestions) :
            LET suggestion == last.suggestions[k]
                best == suggestion.suggested_room.confidence_score
            IN /\ Len(suggestion.alternative_rooms) <= 3
               /\ best \in 0..10
               /\ \A j \in 1..Len(suggestion.alternative_rooms) :
                     LET alt == suggestion.alternative_rooms[j].confidence_score
                     IN alt = Max(0, best - Penalty) /\ alt \in 0..10

----------------------------------------------------------------------------
(* Suggest requests in prompt mode: every interpretation the external
   service may give, of up to two entries, with and without a calendar
   date. *)

MaxEntries == 2       \* entries of an interpretation

TimeStrings == {"01:00", "2:00", "25:00"}
DateStrings == {"2025-11-12", "tomorrow"}

Entries ==
    [name : Optional(Activities), start_time : Optional(TimeStrings),
     end_time : Optional(TimeStrings)]

Interpretations ==
    {[ok |-> FALSE]}
      \cup [ok : {TRUE}, booking_date : Optional(DateStrings),
            activities : UNION {[1..n -> Entries] : n \in 0..MaxEntries}]

NextPrompt ==
    /\ last.op = "none"
    /\ \E booking_date \in Optional({1}), parsed_data \in Interpretations :
          SuggestPrompt(booking_date, parsed_data)

SpecPrompt == Init /\ [][NextPrompt]_vars

(* The step that handles the interpretation, with its inputs. *)
PromptStep == sugg.pc = "idle" /\ (sugg'.pc = "loop" \/ last' # last)

RequestedDate == IF sugg'.pc = "loop" THEN sugg'.requested_date ELSE last'.booking_date

ParsedData == IF sugg'.pc = "loop" THEN sugg'.parsed_data ELSE last'.parsed_data

UsableUpTo(entries, k) == Cardinality({j \in 1..k : Usable(entries[j])})

\* C24: in prompt mode an interpreted entry that lacks a name, lacks a start
\* or end time, or whose time string does not parse as HH:MM is skipped
\* with a recorded warning and no time is made up for it; all other entries
\* of the interpretation are kept, in order and with the times as written,
\* and handed to the room loop.
C24_InvalidEntriesSkipped ==
    [][ (/\ PromptStep
         /\ ParsedData.ok
         /\ ParsedData.activities # <<>>
         /\ ~ EstablishDate(RequestedDate, ParsedData).raised) =>
          LET entries == ParsedData.activities
              activities == IF sugg'.pc = "loop" THEN sugg'.activities ELSE <<>>
              warnings == IF sugg'.pc = "loop" THEN sugg'.warnings
                          ELSE last'.warnings
          IN /\ Len(activities) = UsableUpTo(entries, Len(entries))
             /\ Len(warnings) = Len(entries) - Len(activities)
             /\ \A k \in 1..Len(entries) :
                   Usable(entries[k]) =>
                      LET a == activities[UsableUpTo(entries, k)]
                      IN /\ a.name = Get(entries[k].name)
                         /\ Some(a.start_time) = strptime(Get(entries[k].start_time))
                         /\ Some(a.end_time) = strptime(Get(entries[k].end_time)) ]_vars

\* C25: in prompt mode the interpretation fails with a descriptive error,
\* and no room is looked up or ranked, when neither the caller nor the
\* interpretation gives a date or when no usable activity remains after the
\* invalid entries were skipped; a date supplied by the caller is used
\* instead of the date of the interpretation, so a request with a calendar
\* date and a usable activity goes on to the room loop with that date.
C25_PromptFailsWithoutDateOrActivities ==
    [][ (PromptStep /\ ParsedData.ok) =>
          LET failed == /\ sugg'.pc = "idle"
                        /\ last'.outcome = "ValueError"
                        /\ last'.suggestions = <<>>
                        /\ UNCHANGED <<bookings, rooms>>
              entries == ParsedData.activities
              usable == UsableUpTo(entries, Len(entries))
          IN /\ (RequestedDate = None /\ ParsedData.booking_date = None) =>
                   failed /\ last'.error = "Could not determine booking date"
             /\ (usable = 0 /\ ~ EstablishDate(RequestedDate, ParsedData).raised) =>
                   /\ failed
                   /\ last'.error \in {"Could not extract any activities",
                                       "Could not generate any suggestions"}
             /\ (RequestedDate # None /\ usable > 0) =>
                   /\ sugg'.pc = "loop"
                   /\ sugg'.booking_date = Get(RequestedDate)
             /\ (sugg'.pc = "loop" /\ RequestedDate = None) =>
                   Some(sugg'.booking_date)
                       = fromisoformat(Get(ParsedData.booking_date)) ]_vars

----------------------------------------------------------------------------
(* The bookings that occupy a room according to the booking invariant:
   upcoming, with approval pending or approved. *)
Occupies(b) ==
    b.status = "upcoming" /\ b.approval_status \in {"pending", "approved"}

OccupiedBy(room_id, booking_date, start_time, end_time) ==
    {b \in bookings :
        /\ b.room_id = room_id
        /\ b.booking_date = booking_date
        /\ Occupies(b)
        /\ Overlaps(start_time, end_time, b.start_time, b.end_time)}

\* C26: after a manager rejected a pending booking, that booking no longer
\* blocks its slot: the availability check for an overlapping interval of
\* the same room and date answers available, and a new booking for the slot
\* can be created, unless an upcoming booking with approval pending or
\* approved overlaps the interval.
C26_RejectFreesSlot ==
    [][ /\ \A b \in bookings, s \in Times, e \in Times :
              (/\ b.approval_status = "rejected"
               /\ s < e
               /\ Overlaps(s, e, b.start_time, b.end_time)
               /\ OccupiedBy(b.room_id, b.booking_date, s, e) = {}) =>
                  check_room_availability(bookings, b.room_id, b.booking_date, s, e)
        /\ (/\ last'.op = "create"
            /\ last' # last
            /\ last'.start_time < last'.end_time
            /\ last'.room_id \in RoomIds
            /\ OccupiedBy(last'.room_id, last'.booking_date, last'.start_time,
                          last'.end_time) = {}) =>
               last'.outcome = "201_CREATED" ]_vars

----------------------------------------------------------------------------
(* Refresh and logout requests: two refresh requests may be in flight
   together. *)

(* The tokens presented: refresh tokens of user 1, a refresh token of a
   user that does not exist, an access token and an undecodable string. *)
RequestTokens ==
    {tk \in Tokens : tk.type = "refresh" /\ tk.sub = 1}
      \cup {[sub |-> 9, type |-> "refresh", exp |-> 1],
            [sub |-> 1, type |-> "access", exp |-> 1], Garbage}

NextAuth ==
    \/ \E w \in Workers, token \in RequestTokens : RefreshReceive(w, token)
    \/ \E w \in Workers, exp \in 1..MaxExp : RefreshGetUser(w, exp)
    \/ \E token \in RequestTokens : Logout(token)

SpecAuth == Init /\ [][NextAuth]_vars

Redeemed(w) == refreshers[w].pc = "done" /\ refreshers[w].outcome = "200_OK"

\* C27: once a refresh token has been passed to logout or has been used in
\* a successful refresh it is in the blacklist, every refresh request
\* received later with that token is rejected as revoked, and the
\* blacklist only grows.
C27_RevokedTokenRejected ==
    [][ /\ blacklisted_tokens \subseteq blacklisted_tokens'
        /\ last'.op = "logout" => last'.token \in blacklisted_tokens'
        /\ \A w \in Workers :
              /\ (refreshers'[w].pc = "done" /\ refreshers'[w].outcome = "200_OK")
                    => refreshers'[w].token \in blacklisted_tokens'
              /\ (/\ refreshers[w].pc \in {"idle", "done"}
                  /\ refreshers'[w] # refreshers[w]
                  /\ refreshers'[w].token \in blacklisted_tokens) =>
                     /\ refreshers'[w].pc = "done"
                     /\ refreshers'[w].outcome = "401_REVOKED" ]_vars

(* One request redeemed a token, another one with the same token was
   rejected as revoked, and a different token was revoked by logout. *)
C27_Witness ==
    /\ Redeemed(1)
    /\ refreshers[2].pc = "done"
    /\ refreshers[2].outcome = "401_REVOKED"
    /\ refreshers[2].token = refreshers[1].token
    /\ last.op = "logout"
    /\ last.token # refreshers[1].token
    /\ last.token.type = "refresh"

\* C28: a refresh token is redeemed for new tokens at most once: of two
\* refresh requests carrying the same valid token, also when they are in
\* flight together, at most one returns new tokens.
C28_RedeemedAtMostOnce ==
    \A w1 \in Workers, w2 \in Workers :
        (Redeemed(w1) /\ Redeemed(w2)
            /\ refreshers[w1].token = refreshers[w2].token) => w1 = w2

----------------------------------------------------------------------------
CreatedAt(seq, id) == {k \in 1..Len(seq) : seq[k] = id}

FailuresOf(seq, activity_name) ==
    {k \in 1..Len(seq) : seq[k].activity = activity_name}

\* C29: for every confirm-bulk batch each input item is reported exactly
\* once, by its booking id in the created ids or by one entry in the
\* failures: the success count is the length of the created ids, the
\* failure count is the length of the failures, and the two counts add up
\* to the number of items of the batch.
C29_EveryItemReportedOnce ==
    (last.op = "confirm_bulk") =>
        /\ last.success_count = Len(last.created_bookings)
        /\ last.failure_count = Len(last.failed_bookings)
        /\ last.success_count + last.failure_count = last.n
        /\ Len(last.log) = last.n
        /\ \A i \in 1..Len(last.log) :
              last.log[i].row # None =>
                 Cardinality(CreatedAt(last.created_bookings,
                                       Get(last.log[i].row))) = 1
        /\ \A a \in Activities :
              Cardinality(FailuresOf(last.failed_bookings, a))
                 = Cardinality({i \in 1..Len(last.log) :
                                   /\ last.log[i].activity = a
                                   /\ last.log[i].row = None})
        /\ Len(last.created_bookings)
              = Cardinality({i \in 1..Len(last.log) : last.log[i].row # None})

(* A batch of three items was answered with two created ids and one
   failure. *)
C29_Witness ==
    /\ last.op = "confirm_bulk"
    /\ last.n = 3
    /\ last.success_count = 2
    /\ last.failure_count = 1

----------------------------------------------------------------------------
(* Suggest requests among the requests that reserve rooms: a create and a
   confirm-bulk of one item, all for the slot 1-2 of date 1. *)

MaxReserveRows == 2   \* rows stored in this specification

ReserveAnswers ==
    {[ok |-> FALSE],
     [ok |-> TRUE, suggested_room_id |-> Some(1), confidence_score |-> None,
      alternative_room_ids |-> <<2>>],
     [ok |-> TRUE, suggested_room_id |-> Some(2), confidence_score |-> Some(0),
      alternative_room_ids |-> <<1>>],
     [ok |-> TRUE, suggested_room_id |-> None, confidence_score |-> None,
      alternative_room_ids |-> <<>>]}

NextReserve ==
    \/ \E a \in ActivityRequests("a1") : SuggestStart(1, <<a>>)
    \/ \E answer \in ReserveAnswers : SuggestActivity(answer)
    \/ SuggestReturn
    \/ /\ nextId <= MaxReserveRows
       /\ \E room_id \in RoomIds : CreateBooking(1, room_id, 1, 1, 2, {}, FALSE)
    \/ /\ nextId <= MaxReserveRows
       /\ BulkStart(1, 1, 1)
    \/ \E room_id \in RoomIds : BulkItem(room_id, "a1", 1, 2, {}, FALSE)
    \/ BulkReturn

SpecReserve == Init /\ [][NextReserve]_vars

\* C30: suggest never creates, modifies or deletes a booking or a room: the
\* stored bookings and rooms are the same before and after every step of a
\* suggest call, whether it returns suggestions, uses the fallback ranking
\* or fails; the bookings change only in a create or a confirm-bulk item.
C30_SuggestReadOnly ==
    [][ /\ (sugg' # sugg \/ (last' # last /\ last'.op = "suggest")) =>
              UNCHANGED <<bookings, nextId, rooms>>
        /\ bookings' # bookings =>
              \/ last'.op = "create" /\ last'.outcome = "201_CREATED"
              \/ bulk.pc = "loop" /\ bulk'.pc = "loop"
                    /\ Len(bulk'.created_ids) = Len(bulk.created_ids) + 1
        /\ rooms' = rooms ]_vars

(* A suggest call returned room 2 for the slot while room 1 is booked, and
   room 2 is still free. *)
C30_Witness ==
    /\ last.op = "suggest"
    /\ last.outcome = "ok"
    /\ last.suggestions[1].suggested_room.room_id = 2
    /\ \E b \in bookings : b.room_id = 1
    /\ check_room_availability(bookings, 2, 1, 1, 2)

====
